---- MODULE Spec2Model ----
(***************************************************************************)
(* ProNestheus: the Nest app collector (pkg/collectors/nestapp) and the    *)
(* Nest thermostat collector (pkg/collectors/nest) as state machines.      *)
(*                                                                         *)
(* Time is counted in minutes.  A collection of the Nest app collector is  *)
(* a sequence of steps of one caller (a scrape); the clock may advance     *)
(* between any two steps, because every step but the field assignments is  *)
(* a network call.                                                         *)
(***************************************************************************)
EXTENDS Integers, Sequences, FiniteSets, TLC

VARIABLES
    reader,                 \* the collector the scrapes are directed at
    now,                    \* time.Now(), in minutes
    collector,              \* what nestapp.New returned: "none" (not called yet), "collector", "error"
    exchange,               \* history: what the two endpoints answered to New
    accessToken,            \* Collector.accessToken
    userId,                 \* Collector.userId
    accessTokenValidUntil,  \* Collector.accessTokenValidUntil
    issued,                 \* history: per caller, the triple its last successful exchange returned
    pc,                     \* per caller, its position in Collect/getReadings
    local,                  \* per caller, the local variables of Collect/getReadings/reauth
    ch,                     \* per caller, the samples its Collect sent on the channel
    nest,                   \* the last Collect of the thermostat collector: the response,
                            \* what getNestReadings returned, the samples sent
    exporter                \* the ExporterConfig and what NewExporter made of it

vars == <<reader, now, collector, exchange, accessToken, userId, accessTokenValidUntil,
          issued, pc, local, ch, nest, exporter>>

session == <<accessToken, userId, accessTokenValidUntil>>

----------------------------------------------------------------------------
(* Bounds of the model *)

\* the clock stops advancing at MaxTime
MaxTime == 3
\* the proxy issues tokens that expire at most MaxLife minutes after the exchange
MaxLife == 3
\* the devices list of a response holds at most MaxDevices devices
MaxDevices == 2
\* the updated_buckets array of a response holds at most MaxBuckets buckets
MaxBuckets == 4

(* Program constants *)

\* the re-authentication margin, in minutes
Margin == 2

\* the goroutines that may call Collect
Procs == {1, 2}

----------------------------------------------------------------------------
(* Responses of the authentication endpoints *)

Users == {"u1", "u2"}
Jwts == {"jwtA", "jwtB", "jwtC"}
\* the subject a JWT was issued for
Subject(jwt) == IF jwt = "jwtB" THEN "u2" ELSE "u1"

\* claims.expirationTime: absent, not RFC3339, or the RFC3339 text of an
\* instant d minutes after t, d in L
ExpirationStrs(t, L) ==
    {[kind |-> "empty", t |-> 0], [kind |-> "malformed", t |-> 0]}
        \cup {[kind |-> "rfc3339", t |-> t + d] : d \in L}

\* time.Parse(time.RFC3339, s)
ParseRFC3339(s) ==
    IF s.kind = "rfc3339" THEN [err |-> "nil", t |-> s.t]
                          ELSE [err |-> "parse", t |-> 0]

\* what the Google endpoint answers to the GET of step (a)
GoogleResponses ==
    {[transport |-> "requestFailed", hasError |-> FALSE, access_token |-> ""],
     [transport |-> "readFailed", hasError |-> FALSE, access_token |-> ""]}
        \cup [transport : {"ok"}, hasError : BOOLEAN, access_token : {"", "ya29"}]

\* what the token proxy answers to the POST of step (b), at time t: a failure,
\* or a body with a JWT of J (or none) that lives d minutes, d in L
JwtResponses(J, t, L) ==
    {[transport |-> x, hasError |-> FALSE, jwt |-> "", nestId |-> "",
      expirationTime |-> [kind |-> "empty", t |-> 0]] : x \in {"requestFailed", "readFailed"}}
        \cup {r \in [transport : {"ok"}, hasError : BOOLEAN, jwt : J \cup {""},
                     nestId : Users \cup {""}, expirationTime : ExpirationStrs(t, L)] :
                    r.jwt # "" /\ r.nestId # "" => r.nestId = Subject(r.jwt)}

getGoogleAccessToken(r) ==
    IF r.transport = "requestFailed" THEN [err |-> "Request failed", token |-> ""]
    ELSE IF r.transport = "readFailed" THEN [err |-> "Failed to read response body", token |-> ""]
    ELSE IF r.hasError THEN [err |-> "error", token |-> ""]
    ELSE IF r.access_token = "" THEN [err |-> "No access token in the response", token |-> ""]
    ELSE [err |-> "nil", token |-> r.access_token]

NoJwt == [err |-> "nil", jwt |-> "", userId |-> "", exp |-> 0]

getNestJwt(r) ==
    IF r.transport = "requestFailed" THEN [NoJwt EXCEPT !.err = "Request failed"]
    ELSE IF r.transport = "readFailed" THEN [NoJwt EXCEPT !.err = "Failed to read response body"]
    ELSE IF r.hasError THEN [NoJwt EXCEPT !.err = "error"]
    ELSE IF r.jwt = "" THEN [NoJwt EXCEPT !.err = "No JWT in the response"]
    ELSE IF r.nestId = "" THEN [NoJwt EXCEPT !.err = "No user ID"]
    ELSE IF r.expirationTime.kind = "empty" THEN [NoJwt EXCEPT !.err = "No access token expiration time"]
    ELSE IF ParseRFC3339(r.expirationTime).err # "nil"
        THEN [NoJwt EXCEPT !.err = "Failed to parse access token expiration time"]
    ELSE [err |-> "nil", jwt |-> r.jwt, userId |-> r.nestId,
          exp |-> ParseRFC3339(r.expirationTime).t]

\* a mutant of reauth: the error of step (a) is not checked
reauthUncheckedGoogle(ra, rb) ==
    LET j == getNestJwt(rb)
    IN  IF j.err # "nil" THEN [NoJwt EXCEPT !.err = "Failed to get Nest access token"]
        ELSE j

\* reauth, as New runs it: both steps, then the three assignments
reauth(ra, rb) ==
    LET g == getGoogleAccessToken(ra)
        j == getNestJwt(rb)
    IN  IF g.err # "nil" THEN [NoJwt EXCEPT !.err = "Failed to get Google Account access token"]
        ELSE IF j.err # "nil" THEN [NoJwt EXCEPT !.err = "Failed to get Nest access token"]
        ELSE j

\* a mutant of AboutToExpire: the margin forgotten
AboutToExpireNoMargin(t, validUntil) == ~(t < validUntil)

\* a mutant of AboutToExpire: a token that has expired is not renewed
AboutToExpireOnlyInMargin(t, validUntil) == ~(t < validUntil - Margin) /\ t < validUntil

\* !time.Now().Before(c.accessTokenValidUntil.Add(-2 * time.Minute))
AboutToExpire(t, validUntil) == ~(t < validUntil - Margin)

\* a mutant of Expired: a failed re-authentication never ends the collection
ExpiredNever(t, validUntil) == FALSE

\* a mutant of Expired: the margin counted as expired
ExpiredInMargin(t, validUntil) == ~(t < validUntil - Margin)

\* !time.Now().Before(c.accessTokenValidUntil)
Expired(t, validUntil) == ~(t < validUntil)

----------------------------------------------------------------------------
(* The local variables of one Collect call *)

\* weather_for_structures: key -> [hasCurrent, hasTempC, temp_c]
NoWeather == [k \in {} |-> [hasCurrent |-> FALSE, hasTempC |-> FALSE, temp_c |-> 0]]
\* a body without buckets and without weather
NoBody == [updated_buckets |-> <<>>, weather_for_structures |-> NoWeather]

NoRequest == [urlUser |-> "", authorization |-> "", xNlUserId |-> ""]

NoLocal ==
    [startedAt |-> 0,            \* the clock read of line 254
     startSession |-> <<"", "", 0>>,  \* the session that read saw
     reauth |-> "none",          \* "none": not attempted, "ok", "failed"
     googleAccessToken |-> "",
     jwt |-> "", userId |-> "", exp |-> 0,  \* what getNestJwt returned
     checkedAt |-> 0,            \* the clock read of line 261
     req |-> NoRequest,          \* the data request, as far as it is built
     calls |-> [getGoogleAccessToken |-> 0, getNestJwt |-> 0, do |-> 0],
                                 \* history: the requests sent so far, per endpoint
     resp |-> [transport |-> "", status |-> 0, bodyRead |-> FALSE, body |-> NoBody],
                                 \* history: the answer to the data request
     err |-> "nil",              \* what getReadings returns
     readings |-> [structures |-> <<>>, sensors |-> <<>>]]

NoExchange ==
    [a |-> [transport |-> "", hasError |-> FALSE, access_token |-> ""],
     b |-> [transport |-> "", hasError |-> FALSE, jwt |-> "", nestId |-> "",
            expirationTime |-> [kind |-> "empty", t |-> 0]]]

\* the values of the fields of an ExporterConfig: NestLabelSpaceToDash is a
\* *bool, the others are *string; "nil" stands for the nil pointer
NestURLs == {"https://smartdevicemanagement.googleapis.com/v1/", "smartdevicemanagement"}
LabelFlags == {"nil", "false", "true"}
WeatherTokens == {"", "owm-key"}
AuthURLs == {"nil", "", "https://accounts.google.com/o/oauth2/iframerpc"}
AuthCookies == {"nil", "", "SID=abc"}

\* a configuration with every reader configured
FullCfg ==
    [NestURL |-> "https://smartdevicemanagement.googleapis.com/v1/",
     NestLabelSpaceToDash |-> "nil",
     WeatherToken |-> "owm-key",
     NestGoogleAuthURL |-> "https://accounts.google.com/o/oauth2/iframerpc",
     NestGoogleAuthCookies |-> "SID=abc"]

\* before NewExporter: nothing constructed, nothing registered
NoExporter ==
    [cfg |-> FullCfg, result |-> "none", err |-> "nil", constructed |-> {}, registered |-> {}]

NoNest ==
    [resp |-> [transport |-> "", status |-> 0, bodyRead |-> FALSE, hasDevices |-> FALSE,
               devices |-> <<>>],
     gets |-> 0,    \* history: the GETs sent
     err |-> "nil", thermostats |-> <<>>, ch |-> <<>>]

Init ==
    /\ reader \in {"nest", "nestapp"}
    /\ nest = NoNest
    /\ now = 1
    /\ collector = "none"
    /\ exchange = NoExchange
    /\ accessToken = ""
    /\ userId = ""
    /\ accessTokenValidUntil = 0
    /\ issued = [p \in Procs |-> <<"", "", 0>>]
    /\ pc = [p \in Procs |-> "idle"]
    /\ local = [p \in Procs |-> NoLocal]
    /\ ch = [p \in Procs |-> <<>>]
    /\ \E f \in (IF reader = "nest" THEN LabelFlags ELSE {"nil"}) :
        exporter = [NoExporter EXCEPT !.cfg.NestLabelSpaceToDash = f]

\* the clock, which only the Nest app collector reads
Tick ==
    /\ reader = "nestapp"
    /\ now < MaxTime
    /\ now' = now + 1
    /\ UNCHANGED <<reader, collector, exchange, accessToken, userId, accessTokenValidUntil,
                   issued, pc, local, ch, nest, exporter>>

\* nestapp.New: the collector is returned only if reauth succeeded
New ==
    /\ reader = "nestapp"
    /\ collector = "none"
    /\ \E ra \in GoogleResponses : \E rb \in JwtResponses({"jwtA", "jwtB"}, now, 0..MaxLife) :
       LET r == reauth(ra, rb)
       IN  /\ exchange' = [a |-> ra, b |-> rb]
           /\ IF r.err # "nil"
              THEN /\ collector' = "error"
                   /\ UNCHANGED <<accessToken, userId, accessTokenValidUntil, issued>>
              ELSE /\ collector' = "collector"
                   /\ accessToken' = r.jwt
                   /\ userId' = r.userId
                   /\ accessTokenValidUntil' = r.exp
                   /\ issued' = [p \in Procs |-> <<r.jwt, r.userId, r.exp>>]
    /\ UNCHANGED <<reader, now, pc, local, ch, nest, exporter>>

----------------------------------------------------------------------------
(* The response of the app_launch endpoint and its parsing *)

NaN == [nan |-> TRUE, v |-> 0]
Float(x) == [nan |-> FALSE, v |-> x]

NoBucket ==
    [type |-> "", id |-> "", hasValue |-> TRUE, name |-> "", wheres |-> <<>>,
     structure_id |-> "", where_id |-> "", serial_number |-> "",
     current_temperature |-> 0, battery_level |-> 0]

\* object_key "structure.<id>", value.name
StructureBucket(id, name) ==
    [NoBucket EXCEPT !.type = "structure", !.id = id, !.name = name]
\* object_key "where.<id>", value.wheres
WhereBucket(id, wheres) ==
    [NoBucket EXCEPT !.type = "where", !.id = id, !.wheres = wheres]
\* object_key "kryptonite.<serial>"
KryptoniteBucket(serial, sid, wid, temp, battery) ==
    [NoBucket EXCEPT !.type = "kryptonite", !.id = serial, !.serial_number = serial,
                     !.structure_id = sid, !.where_id = wid,
                     !.current_temperature = temp, !.battery_level = battery]
Where(wid, name) == [hasWhereId |-> TRUE, where_id |-> wid, name |-> name]

\* m with m[k] = v
Put(m, k, v) == [x \in DOMAIN m \cup {k} |-> IF x = k THEN v ELSE m[x]]

\* structures[id], the zero Structure when id is no key
NoStructure == [Id |-> "", Name |-> "", WhereNames |-> [k \in {} |-> ""],
                OutsideTemperature |-> Float(0)]
Lookup(m, k) == IF k \in DOMAIN m THEN m[k] ELSE NoStructure
\* structure.WhereNames[id], "" when id is no key
WhereName(s, k) == IF k \in DOMAIN s.WhereNames THEN s.WhereNames[k] ELSE ""

\* first pass over updated_buckets: the structure buckets
RECURSIVE structurePass(_, _, _)
structurePass(bs, i, m) ==
    IF i > Len(bs) THEN m
    ELSE structurePass(bs, i + 1,
            IF bs[i].type = "structure" /\ bs[i].hasValue
            THEN Put(m, bs[i].id, [Id |-> bs[i].id, Name |-> bs[i].name,
                                   WhereNames |-> [k \in {} |-> ""],
                                   OutsideTemperature |-> NaN])
            ELSE m)

\* the wheres of one where bucket into a WhereNames map
RECURSIVE wheresInto(_, _, _)
wheresInto(ws, i, names) ==
    IF i > Len(ws) THEN names
    ELSE wheresInto(ws, i + 1,
            IF ws[i].hasWhereId THEN Put(names, ws[i].where_id, ws[i].name) ELSE names)

\* second pass: the where buckets
RECURSIVE wherePass(_, _, _)
wherePass(bs, i, m) ==
    IF i > Len(bs) THEN m
    ELSE wherePass(bs, i + 1,
            IF bs[i].type = "where" /\ bs[i].hasValue /\ bs[i].id \in DOMAIN m
            THEN [m EXCEPT ![bs[i].id].WhereNames = wheresInto(bs[i].wheres, 1, @)]
            ELSE m)

\* a mutant of sensorPass: a sensor whose structure is not in the map is left out
RECURSIVE sensorPassSkipUnresolved(_, _, _, _)
sensorPassSkipUnresolved(bs, i, m, sensors) ==
    IF i > Len(bs) THEN sensors
    ELSE sensorPassSkipUnresolved(bs, i + 1, m,
            IF bs[i].type = "kryptonite" /\ bs[i].hasValue /\ bs[i].structure_id \in DOMAIN m
            THEN Append(sensors,
                    [SerialNumber |-> bs[i].serial_number,
                     Temperature |-> bs[i].current_temperature,
                     BatteryLevel |-> bs[i].battery_level,
                     StructureName |-> Lookup(m, bs[i].structure_id).Name,
                     WhereName |-> WhereName(Lookup(m, bs[i].structure_id), bs[i].where_id)])
            ELSE sensors)

\* third pass: the kryptonite buckets
RECURSIVE sensorPass(_, _, _, _)
sensorPass(bs, i, m, sensors) ==
    IF i > Len(bs) THEN sensors
    ELSE sensorPass(bs, i + 1, m,
            IF bs[i].type = "kryptonite" /\ bs[i].hasValue
            THEN Append(sensors,
                    [SerialNumber |-> bs[i].serial_number,
                     Temperature |-> bs[i].current_temperature,
                     BatteryLevel |-> bs[i].battery_level,
                     StructureName |-> Lookup(m, bs[i].structure_id).Name,
                     WhereName |-> WhereName(Lookup(m, bs[i].structure_id), bs[i].where_id)])
            ELSE sensors)

\* weather_for_structures into the structures' OutsideTemperature
weatherPass(w, m) ==
    [id \in DOMAIN m |->
        IF id \in DOMAIN w /\ w[id].hasCurrent /\ w[id].hasTempC
        THEN [m[id] EXCEPT !.OutsideTemperature = Float(w[id].temp_c)]
        ELSE m[id]]

\* a mutant of parseSensors: one pass over updated_buckets, each bucket
\* handled where it stands
RECURSIVE onePass(_, _, _, _)
onePass(bs, i, m, sensors) ==
    IF i > Len(bs) THEN sensors
    ELSE onePass(bs, i + 1,
                 wherePass(<<bs[i]>>, 1, structurePass(<<bs[i]>>, 1, m)),
                 sensorPass(<<bs[i]>>, 1, m, sensors))
parseSensorsOnePass(body) ==
    onePass(body.updated_buckets, 1, [k \in {} |-> NoStructure], <<>>)

\* the structures map and the sensors list getReadings builds from a body
parseStructures(body) ==
    weatherPass(body.weather_for_structures,
                wherePass(body.updated_buckets, 1,
                          structurePass(body.updated_buckets, 1, [k \in {} |-> NoStructure])))
parseSensors(body) ==
    sensorPass(body.updated_buckets, 1,
               wherePass(body.updated_buckets, 1,
                         structurePass(body.updated_buckets, 1, [k \in {} |-> NoStructure])),
               <<>>)

\* the orders in which ranging over a map may visit the keys S
Orders(S) == {o \in [1..Cardinality(S) -> S] : \A i, j \in DOMAIN o : i # j => o[i] # o[j]}

\* the bodies the endpoint answers with
AppBodies ==
    {[updated_buckets |-> <<>>, weather_for_structures |-> NoWeather],
     [updated_buckets |->
        <<StructureBucket("s1", "Home"),
          WhereBucket("s1", <<Where("w1", "Living Room")>>),
          KryptoniteBucket("22AA", "s1", "w1", 22, 79)>>,
      weather_for_structures |->
        [k \in {"s1"} |-> [hasCurrent |-> TRUE, hasTempC |-> TRUE, temp_c |-> 28]]],
     [updated_buckets |->
        <<KryptoniteBucket("22AA", "s2", "w9", 19, 50),
          StructureBucket("s1", "Home"),
          StructureBucket("s2", "Cabin")>>,
      weather_for_structures |->
        [k \in {"s2"} |-> [hasCurrent |-> TRUE, hasTempC |-> FALSE, temp_c |-> 0]]]}

\* what the app_launch endpoint answers to the data request
DataResponses ==
    {[transport |-> "requestFailed", status |-> 0, bodyRead |-> FALSE, body |-> NoBody]}
        \cup [transport : {"ok"}, status : {500}, bodyRead : {TRUE}, body : {NoBody}]
        \cup [transport : {"ok"}, status : {200}, bodyRead : {FALSE}, body : {NoBody}]
        \cup [transport : {"ok"}, status : {200}, bodyRead : {TRUE}, body : AppBodies]

\* the buckets a body may hold: two structures and a second bucket for the
\* first one's id, their where buckets and one for a structure that is not
\* there, sensors of a known place, of an unknown place and of an unknown
\* structure
BucketPool ==
    {StructureBucket("s1", "Home"), StructureBucket("s2", "Cabin"),
     StructureBucket("s1", "Office"),
     WhereBucket("s1", <<Where("w1", "Living Room")>>),
     WhereBucket("s2", <<Where("w1", "Loft")>>),
     WhereBucket("s3", <<Where("w1", "Shed")>>),
     KryptoniteBucket("22AA", "s2", "w1", 19, 50),
     KryptoniteBucket("33BB", "s1", "w9", 22, 79),
     KryptoniteBucket("44CC", "s3", "w1", 17, 12)}

\* the arrays of at most MaxBuckets different buckets of the pool, in every order
BucketArrays ==
    UNION {{bs \in [1..n -> BucketPool] : \A i, j \in 1..n : i # j => bs[i] # bs[j]} :
            n \in 0..MaxBuckets}

\* successful answers to the data request with those arrays
ParseResponses ==
    [transport : {"ok"}, status : {200}, bodyRead : {TRUE},
     body : [updated_buckets : BucketArrays,
             weather_for_structures :
                {[k \in {"s1", "s2"} |-> [hasCurrent |-> TRUE, hasTempC |-> k = "s1",
                                          temp_c |-> 28]]}]]

NoReadings == [structures |-> <<>>, sensors |-> <<>>]

\* getReadings from the response on: the error it returns
readingsErr(r) ==
    IF r.transport # "ok" THEN "errFailedRequest"
    ELSE IF r.status # 200 THEN "errNon200Response"
    ELSE IF ~r.bodyRead THEN "errFailedReadingBody"
    ELSE "nil"

----------------------------------------------------------------------------
(* Collect and getReadings of the Nest app collector, step by step *)

\* Collect calls getReadings, which reads the clock and the expiry (line 254)
StartCollect(p) ==
    /\ reader = "nestapp"
    /\ collector = "collector"
    /\ pc[p] = "idle"
    /\ local' = [local EXCEPT ![p] = [NoLocal EXCEPT !.startedAt = now,
                                                     !.startSession = session]]
    /\ pc' = [pc EXCEPT ![p] = IF AboutToExpire(now, accessTokenValidUntil)
                               THEN "getGoogleAccessToken" ELSE "reqUrl"]
    /\ UNCHANGED <<reader, now, collector, exchange, accessToken, userId, accessTokenValidUntil,
                   issued, ch, nest, exporter>>

\* reauth, step (a)
GoogleToken(p) ==
    /\ pc[p] = "getGoogleAccessToken"
    /\ \E ra \in GoogleResponses :
       LET g == getGoogleAccessToken(ra)
       IN  IF g.err # "nil"
           THEN /\ local' = [local EXCEPT ![p].reauth = "failed",
                                          ![p].calls.getGoogleAccessToken = @ + 1]
                /\ pc' = [pc EXCEPT ![p] = "expiredCheck"]
           ELSE /\ local' = [local EXCEPT ![p].googleAccessToken = g.token,
                                          ![p].calls.getGoogleAccessToken = @ + 1]
                /\ pc' = [pc EXCEPT ![p] = "getNestJwt"]
    /\ UNCHANGED <<reader, now, collector, exchange, accessToken, userId, accessTokenValidUntil,
                   issued, ch, nest, exporter>>

\* reauth, step (b), the proxy answering from J
NestJwt(p, J) ==
    /\ pc[p] = "getNestJwt"
    /\ \E rb \in J :
       LET j == getNestJwt(rb)
       IN  IF j.err # "nil"
           THEN /\ local' = [local EXCEPT ![p].reauth = "failed",
                                          ![p].calls.getNestJwt = @ + 1]
                /\ pc' = [pc EXCEPT ![p] = "expiredCheck"]
                /\ UNCHANGED issued
           ELSE /\ local' = [local EXCEPT ![p].jwt = j.jwt, ![p].userId = j.userId,
                                          ![p].exp = j.exp,
                                          ![p].calls.getNestJwt = @ + 1]
                /\ pc' = [pc EXCEPT ![p] = "setAccessToken"]
                /\ issued' = [issued EXCEPT ![p] = <<j.jwt, j.userId, j.exp>>]
    /\ UNCHANGED <<reader, now, collector, exchange, accessToken, userId, accessTokenValidUntil,
                   ch, nest, exporter>>

\* reauth, line 88
SetAccessToken(p) ==
    /\ pc[p] = "setAccessToken"
    /\ accessToken' = local[p].jwt
    /\ pc' = [pc EXCEPT ![p] = "setUserId"]
    /\ UNCHANGED <<reader, now, collector, exchange, userId, accessTokenValidUntil, issued, local,
                   ch, nest, exporter>>

\* a mutant of SetUserId: the assignment of line 89 left out
SetUserIdSkipped(p) ==
    /\ pc[p] = "setUserId"
    /\ pc' = [pc EXCEPT ![p] = "setValidUntil"]
    /\ UNCHANGED <<reader, now, collector, exchange, accessToken, userId,
                   accessTokenValidUntil, issued, local, ch, nest, exporter>>

\* reauth, line 89
SetUserId(p) ==
    /\ pc[p] = "setUserId"
    /\ userId' = local[p].userId
    /\ pc' = [pc EXCEPT ![p] = "setValidUntil"]
    /\ UNCHANGED <<reader, now, collector, exchange, accessToken, accessTokenValidUntil, issued,
                   local, ch, nest, exporter>>

\* reauth, line 90, and its return nil
SetValidUntil(p) ==
    /\ pc[p] = "setValidUntil"
    /\ accessTokenValidUntil' = local[p].exp
    /\ local' = [local EXCEPT ![p].reauth = "ok"]
    /\ pc' = [pc EXCEPT ![p] = "reqUrl"]
    /\ UNCHANGED <<reader, now, collector, exchange, accessToken, userId, issued, ch, nest, exporter>>

\* a mutant of ExpiredCheck: an expired token makes getReadings try the
\* re-authentication again
ExpiredCheckRetry(p) ==
    /\ pc[p] = "expiredCheck"
    /\ local' = [local EXCEPT ![p].checkedAt = now]
    /\ pc' = [pc EXCEPT ![p] = IF Expired(now, accessTokenValidUntil)
                               THEN "getGoogleAccessToken" ELSE "reqUrl"]
    /\ UNCHANGED <<reader, now, collector, exchange, accessToken, userId, accessTokenValidUntil,
                   issued, ch, nest, exporter>>

\* a mutant of ExpiredCheck: the clock read at the start of the collection is
\* compared, not a new one
ExpiredCheckAtStart(p) ==
    /\ pc[p] = "expiredCheck"
    /\ IF Expired(local[p].startedAt, accessTokenValidUntil)
       THEN /\ local' = [local EXCEPT ![p].checkedAt = now,
                                      ![p].err = "Failed to re-authenticate to Nest API"]
            /\ pc' = [pc EXCEPT ![p] = "returned"]
       ELSE /\ local' = [local EXCEPT ![p].checkedAt = now]
            /\ pc' = [pc EXCEPT ![p] = "reqUrl"]
    /\ UNCHANGED <<reader, now, collector, exchange, accessToken, userId, accessTokenValidUntil,
                   issued, ch, nest, exporter>>

\* reauth returned an error: the second read of the clock (line 261)
ExpiredCheck(p) ==
    /\ pc[p] = "expiredCheck"
    /\ IF Expired(now, accessTokenValidUntil)
       THEN /\ local' = [local EXCEPT ![p].checkedAt = now,
                                      ![p].err = "Failed to re-authenticate to Nest API"]
            /\ pc' = [pc EXCEPT ![p] = "returned"]
       ELSE /\ local' = [local EXCEPT ![p].checkedAt = now]
            /\ pc' = [pc EXCEPT ![p] = "reqUrl"]
    /\ UNCHANGED <<reader, now, collector, exchange, accessToken, userId, accessTokenValidUntil,
                   issued, ch, nest, exporter>>

\* the request URL, from c.userId (line 272)
ReqUrl(p) ==
    /\ pc[p] = "reqUrl"
    /\ local' = [local EXCEPT ![p].req.urlUser = userId]
    /\ pc' = [pc EXCEPT ![p] = "reqAuthorization"]
    /\ UNCHANGED <<reader, now, collector, exchange, accessToken, userId, accessTokenValidUntil,
                   issued, ch, nest, exporter>>

\* the Authorization and Cookie headers, from c.accessToken (lines 274-275)
ReqAuthorization(p) ==
    /\ pc[p] = "reqAuthorization"
    /\ local' = [local EXCEPT ![p].req.authorization = accessToken]
    /\ pc' = [pc EXCEPT ![p] = "reqUserId"]
    /\ UNCHANGED <<reader, now, collector, exchange, accessToken, userId, accessTokenValidUntil,
                   issued, ch, nest, exporter>>

\* the X-nl-user-id header, from c.userId (line 276)
ReqUserId(p) ==
    /\ pc[p] = "reqUserId"
    /\ local' = [local EXCEPT ![p].req.xNlUserId = userId]
    /\ pc' = [pc EXCEPT ![p] = "do"]
    /\ UNCHANGED <<reader, now, collector, exchange, accessToken, userId, accessTokenValidUntil,
                   issued, ch, nest, exporter>>

\* c.client.Do(req) and the rest of getReadings, the endpoint answering from D;
\* o is the order in which the range over the structures map visits it.  The
\* request is gone with the call: of the history only the outcome of the
\* re-authentication is kept.
DoRequest(p, D) ==
    /\ pc[p] = "do"
    /\ \E r \in D : \E o \in Orders(DOMAIN parseStructures(r.body)) :
       local' = [local EXCEPT ![p] =
            [NoLocal EXCEPT
                !.reauth = local[p].reauth,
                !.checkedAt = local[p].checkedAt,
                !.calls = [local[p].calls EXCEPT !.do = @ + 1],
                !.resp = r,
                !.err = readingsErr(r),
                !.readings =
                    IF readingsErr(r) # "nil" THEN NoReadings
                    ELSE [structures |-> [i \in DOMAIN o |-> parseStructures(r.body)[o[i]]],
                          sensors |-> parseSensors(r.body)]]]
    /\ pc' = [pc EXCEPT ![p] = "returned"]
    /\ UNCHANGED <<reader, now, collector, exchange, accessToken, userId, accessTokenValidUntil,
                   issued, ch, nest, exporter>>

Sample(metric, labels, value) == [metric |-> metric, labels |-> labels, value |-> value]

\* the two samples of each sensor, in the order of the sensors
SensorSamples(sensors) ==
    [i \in 1..(2 * Len(sensors)) |->
        LET s == sensors[(i + 1) \div 2]
            labels == <<s.SerialNumber, s.StructureName, s.WhereName>>
        IN  IF i % 2 = 1
            THEN Sample("nest_temp_sensor_temperature_celsius", labels, s.Temperature)
            ELSE Sample("nest_temp_sensor_battery", labels, s.BatteryLevel)]

\* the outside temperature of each structure that has one
RECURSIVE StructureSamples(_)
StructureSamples(structures) ==
    IF structures = <<>> THEN <<>>
    ELSE LET s == Head(structures)
         IN  (IF s.OutsideTemperature.nan THEN <<>>
              ELSE <<Sample("nest_outside_temperature_celsius", <<s.Id, s.Name>>,
                            s.OutsideTemperature.v)>>)
             \o StructureSamples(Tail(structures))

\* a mutant of collectSamples: the return after the failure sample left out
collectSamplesNoReturn(err, readings) ==
    (IF err # "nil" THEN <<Sample("nest_app_up", <<>>, 0)>> ELSE <<>>)
        \o <<Sample("nest_app_up", <<>>, 1)>>
        \o SensorSamples(readings.sensors)
        \o StructureSamples(readings.structures)

\* what Collect sends on the channel, given what getReadings returned
collectSamples(err, readings) ==
    IF err # "nil" THEN <<Sample("nest_app_up", <<>>, 0)>>
    ELSE <<Sample("nest_app_up", <<>>, 1)>>
            \o SensorSamples(readings.sensors)
            \o StructureSamples(readings.structures)

\* Collect, after getReadings returned (lines 205-227)
CollectSamples(p) ==
    /\ pc[p] = "returned"
    /\ ch' = [ch EXCEPT ![p] = collectSamples(local[p].err, local[p].readings)]
    /\ pc' = [pc EXCEPT ![p] = "collected"]
    /\ UNCHANGED <<reader, now, collector, exchange, accessToken, userId, accessTokenValidUntil,
                   issued, local, nest, exporter>>

\* the registry takes the samples off the channel
Gather(p) ==
    /\ pc[p] = "collected"
    /\ ch' = [ch EXCEPT ![p] = <<>>]
    /\ local' = [local EXCEPT ![p] = NoLocal]
    /\ pc' = [pc EXCEPT ![p] = "idle"]
    /\ UNCHANGED <<reader, now, collector, exchange, accessToken, userId, accessTokenValidUntil,
                   issued, nest, exporter>>

----------------------------------------------------------------------------
(* The thermostat collector (pkg/collectors/nest) *)

THERMOSTAT == "sdm.devices.types.THERMOSTAT"

\* the i-th device of a response: its resource name is its own; a thermostat's
\* traits vary, another device has none of them
DevicesAt(i) ==
    [type : {"sdm.devices.types.CAMERA"},
     name : {"enterprises/p/devices/" \o ToString(i)},
     customName : {<<>>},
     parentRelations : {<<>>},
     connectivity : {""},
     hasHeatCelsius : {FALSE},
     heatCelsius : {0},
     ambientTemperatureCelsius : {0},
     ambientHumidityPercent : {0},
     hvac : {""}]
  \cup
    [type : {THERMOSTAT},
     name : {"enterprises/p/devices/" \o ToString(i)},
     customName : {<<"Living", " ", "Room">>},
     parentRelations : {<<[parent |-> "enterprises/p/structures/s", displayName |-> "Home"],
                          [parent |-> "enterprises/p/structures/s/rooms/r",
                           displayName |-> "Hall"]>>},
     connectivity : {"ONLINE", "OFFLINE"},
     hasHeatCelsius : BOOLEAN,
     heatCelsius : {18},
     ambientTemperatureCelsius : {23},
     ambientHumidityPercent : {55},
     hvac : {"HEATING", "COOLING", "OFF"}]

\* the devices arrays of n devices
RECURSIVE DeviceLists(_)
DeviceLists(n) ==
    IF n = 0 THEN {<<>>}
    ELSE {Append(ds, d) : ds \in DeviceLists(n - 1), d \in DevicesAt(n)}

\* what the device API answers to the GET
NestResponses ==
    [transport : {"requestFailed"}, status : {0}, bodyRead : {FALSE}, hasDevices : {FALSE},
     devices : {<<>>}]
        \cup [transport : {"ok"}, status : {401}, bodyRead : {TRUE}, hasDevices : {FALSE},
              devices : {<<>>}]
        \cup [transport : {"ok"}, status : {200}, bodyRead : {FALSE}, hasDevices : {FALSE},
              devices : {<<>>}]
        \cup [transport : {"ok"}, status : {200}, bodyRead : {TRUE}, hasDevices : {FALSE},
              devices : {<<>>}]
        \cup [transport : {"ok"}, status : {200}, bodyRead : {TRUE}, hasDevices : {TRUE},
              devices : UNION {DeviceLists(n) : n \in 0..MaxDevices}]

\* strings.Contains(parent, "/rooms/"), the parent being a resource path
IsRoom(parent) == parent = "enterprises/p/structures/s/rooms/r"

\* the displayName of the first parent relation that is a room, "" if none
RECURSIVE roomOf(_)
roomOf(relations) ==
    IF relations = <<>> THEN ""
    ELSE IF IsRoom(Head(relations).parent) THEN Head(relations).displayName
    ELSE roomOf(Tail(relations))

\* a mutant of thermostatOf: the setpoint read without asking whether it exists
thermostatOfZeroSetpoint(device) ==
    [ID |-> device.name,
     Room |-> roomOf(device.parentRelations),
     Label |-> device.customName,
     Online |-> (device.connectivity = "ONLINE"),
     AmbientTemp |-> device.ambientTemperatureCelsius,
     SetpointTemp |-> Float(IF device.hasHeatCelsius THEN device.heatCelsius ELSE 0),
     Humidity |-> device.ambientHumidityPercent,
     Status |-> device.hvac]

\* the Thermostat getNestReadings builds from a device (lines 189-220)
thermostatOf(device) ==
    [ID |-> device.name,
     Room |-> roomOf(device.parentRelations),
     Label |-> device.customName,
     Online |-> (device.connectivity = "ONLINE"),
     AmbientTemp |-> device.ambientTemperatureCelsius,
     SetpointTemp |-> IF device.hasHeatCelsius THEN Float(device.heatCelsius) ELSE NaN,
     Humidity |-> device.ambientHumidityPercent,
     Status |-> device.hvac]

\* a mutant of devicePass: the iteration ends at the first device that is no
\* thermostat (the callback returning false)
RECURSIVE devicePassStopAtOther(_, _, _)
devicePassStopAtOther(devices, i, thermostats) ==
    IF i > Len(devices) THEN thermostats
    ELSE IF devices[i].type # THERMOSTAT THEN thermostats
    ELSE devicePassStopAtOther(devices, i + 1, Append(thermostats, thermostatOf(devices[i])))

\* the ForEach over the devices array (lines 183-224)
RECURSIVE devicePass(_, _, _)
devicePass(devices, i, thermostats) ==
    IF i > Len(devices) THEN thermostats
    ELSE devicePass(devices, i + 1,
            IF devices[i].type # THERMOSTAT THEN thermostats
            ELSE Append(thermostats, thermostatOf(devices[i])))

\* a mutant of getNestReadings: an empty list of thermostats is a result
getNestReadingsEmptyOk(r) ==
    IF r.transport # "ok" THEN [err |-> "errFailedRequest", thermostats |-> <<>>]
    ELSE IF r.status # 200 THEN [err |-> "errNon200Response", thermostats |-> <<>>]
    ELSE IF ~r.bodyRead THEN [err |-> "errFailedReadingBody", thermostats |-> <<>>]
    ELSE [err |-> "nil", thermostats |-> devicePass(r.devices, 1, <<>>)]

\* getNestReadings: the error and the thermostats it returns for a response
getNestReadings(r) ==
    IF r.transport # "ok" THEN [err |-> "errFailedRequest", thermostats |-> <<>>]
    ELSE IF r.status # 200 THEN [err |-> "errNon200Response", thermostats |-> <<>>]
    ELSE IF ~r.bodyRead THEN [err |-> "errFailedReadingBody", thermostats |-> <<>>]
    ELSE IF Len(devicePass(r.devices, 1, <<>>)) = 0
        THEN [err |-> "errFailedUnmarshalling", thermostats |-> <<>>]
    ELSE [err |-> "nil", thermostats |-> devicePass(r.devices, 1, <<>>)]

b2f(b) == IF b THEN 1 ELSE 0

\* the metrics Describe of the thermostat collector sends, in its order
NestDescribe ==
    <<"nest_up", "nest_online", "nest_ambient_temperature_celsius",
      "nest_setpoint_temperature_celsius", "nest_humidity_percent", "nest_heating">>

\* strings.Replace(s, old, new, -1), s a sequence of words and separators
Replace(str, old, new) == [i \in DOMAIN str |-> IF str[i] = old THEN new ELSE str[i]]

\* a mutant of thermostatSamples: the online check of line 152 left out
thermostatSamplesUnchecked(therm) ==
    LET labels == <<therm.ID, therm.Room, Replace(therm.Label, " ", "-")>>
    IN  <<Sample("nest_online", labels, b2f(therm.Online)),
          Sample("nest_ambient_temperature_celsius", labels, therm.AmbientTemp)>>
        \o (IF therm.SetpointTemp.nan THEN <<>>
            ELSE <<Sample("nest_setpoint_temperature_celsius", labels,
                          therm.SetpointTemp.v)>>)
        \o <<Sample("nest_humidity_percent", labels, therm.Humidity),
             Sample("nest_heating", labels, b2f(therm.Status = "HEATING"))>>

\* the samples of one thermostat (lines 145-161)
thermostatSamples(therm) ==
    LET labels == <<therm.ID, therm.Room, Replace(therm.Label, " ", "-")>>
    IN  <<Sample("nest_online", labels, b2f(therm.Online))>>
        \o (IF ~therm.Online THEN <<>>
            ELSE <<Sample("nest_ambient_temperature_celsius", labels, therm.AmbientTemp)>>
                 \o (IF therm.SetpointTemp.nan THEN <<>>
                     ELSE <<Sample("nest_setpoint_temperature_celsius", labels,
                                   therm.SetpointTemp.v)>>)
                 \o <<Sample("nest_humidity_percent", labels, therm.Humidity),
                      Sample("nest_heating", labels, b2f(therm.Status = "HEATING"))>>)

RECURSIVE thermostatsSamples(_)
thermostatsSamples(thermostats) ==
    IF thermostats = <<>> THEN <<>>
    ELSE thermostatSamples(Head(thermostats)) \o thermostatsSamples(Tail(thermostats))

\* what Collect sends on the channel, given what getNestReadings returned
nestSamples(got) ==
    IF got.err # "nil" THEN <<Sample("nest_up", <<>>, 0)>>
    ELSE <<Sample("nest_up", <<>>, 1)>> \o thermostatsSamples(got.thermostats)

\* Collect of the thermostat collector: one GET, then the samples
NestCollect ==
    /\ reader = "nest"
    /\ nest = NoNest
    /\ \E r \in NestResponses :
       nest' = [resp |-> r,
                gets |-> 1,
                err |-> getNestReadings(r).err,
                thermostats |-> getNestReadings(r).thermostats,
                ch |-> nestSamples(getNestReadings(r))]
    /\ UNCHANGED <<reader, now, collector, exchange, accessToken, userId, accessTokenValidUntil,
                   issued, pc, local, ch, exporter>>

\* the registry takes the samples off the channel
NestGather ==
    /\ reader = "nest"
    /\ nest # NoNest
    /\ nest' = NoNest
    /\ UNCHANGED <<reader, now, collector, exchange, accessToken, userId, accessTokenValidUntil,
                   issued, pc, local, ch, exporter>>

----------------------------------------------------------------------------
\* the steps of caller p's Collect that touch no endpoint
Step(p) ==
    \/ SetAccessToken(p)
    \/ SetUserId(p)
    \/ SetValidUntil(p)
    \/ ExpiredCheck(p)
    \/ ReqUrl(p)
    \/ ReqAuthorization(p)
    \/ ReqUserId(p)
    \/ CollectSamples(p)

\* sequential use: one caller, one Collect at a time
Next ==
    \/ Tick
    \/ New
    \/ StartCollect(1)
    \/ GoogleToken(1)
    \/ NestJwt(1, JwtResponses({"jwtA", "jwtB"}, now, 0..MaxLife))
    \/ DoRequest(1, DataResponses)
    \/ Step(1)
    \/ Gather(1)
    \/ NestCollect
    \/ NestGather

Spec == Init /\ [][Next]_vars

\* concurrent use: New returned a collector whose token is by now inside the
\* margin, and two callers run one Collect each within the same minute.  The
\* proxy issues a new JWT for the same user at each exchange, stamped with the
\* instant of the exchange.
InitConcurrent ==
    /\ reader = "nestapp"
    /\ now = 1
    /\ collector = "collector"
    /\ \E e \in (now + 1)..(now + Margin) :
        /\ exchange = [a |-> [transport |-> "ok", hasError |-> FALSE, access_token |-> "ya29"],
                       b |-> [transport |-> "ok", hasError |-> FALSE, jwt |-> "jwtA",
                              nestId |-> Subject("jwtA"),
                              expirationTime |-> [kind |-> "rfc3339", t |-> e]]]
        /\ accessToken = "jwtA"
        /\ userId = Subject("jwtA")
        /\ accessTokenValidUntil = e
        /\ issued = [p \in Procs |-> <<"jwtA", Subject("jwtA"), e>>]
    /\ pc = [p \in Procs |-> "idle"]
    /\ local = [p \in Procs |-> NoLocal]
    /\ ch = [p \in Procs |-> <<>>]
    /\ nest = NoNest
    /\ exporter = NoExporter

NextConcurrent ==
    \E p \in Procs :
        \/ StartCollect(p)
        \/ GoogleToken(p)
        \/ NestJwt(p, JwtResponses({"jwtA", "jwtC"}, now, (MaxLife - 1)..MaxLife))
        \/ DoRequest(p, {r \in DataResponses : r.body = NoBody})
        \/ Step(p)

SpecConcurrent == InitConcurrent /\ [][NextConcurrent]_vars

\* recovery: the Nest app collector scraped for ever.  Scrapes keep arriving
\* and every step of a Collect is taken in the end; the Google endpoint, the
\* token proxy (with a token that has not expired yet) and the data endpoint
\* each answer successfully again and again.
InitLive == Init /\ reader = "nestapp"

GoogleTokenOk == GoogleToken(1) /\ pc'[1] = "getNestJwt"
NestJwtOk ==
    /\ NestJwt(1, JwtResponses({"jwtA", "jwtB"}, now, 1..MaxLife))
    /\ pc'[1] = "setAccessToken"
DoRequestOk ==
    /\ DoRequest(1, {r \in DataResponses : r.body = NoBody})
    /\ local'[1].err = "nil"

NextLive ==
    \/ Tick
    \/ New
    \/ StartCollect(1)
    \/ GoogleToken(1)
    \/ NestJwt(1, JwtResponses({"jwtA", "jwtB"}, now, 1..MaxLife))
    \/ DoRequest(1, {r \in DataResponses : r.body = NoBody})
    \/ Step(1)
    \/ Gather(1)

SpecLive ==
    /\ InitLive
    /\ [][NextLive]_vars
    /\ WF_vars(StartCollect(1))
    /\ WF_vars(Step(1))
    /\ WF_vars(Gather(1))
    /\ SF_vars(GoogleTokenOk)
    /\ SF_vars(NestJwtOk)
    /\ SF_vars(DoRequestOk)

----------------------------------------------------------------------------
(* The composition root (pkg/pronestheus.go) *)

\* url.ParseRequestURI(u) succeeds
ParseRequestURI(u) == u = "https://smartdevicemanagement.googleapis.com/v1/"

ErrNoAuthURL == "Cookies for Nest app provided, but the Google authentication URL not provided"
ErrNoCookies == "Google auth URL for the Nest app provided, but no cookies provided"
ErrNestAppNew == "Failed to authenticate to Nest API"
ErrWeatherNew == "weather.New"

\* what a register function did: the error it returns, the readers it
\* constructed and registered, whether it called nestapp.New
Registered(err, readers, called) ==
    [err |-> err, constructed |-> readers, registered |-> readers, called |-> called]

\* nest.New fails on a URL that does not parse; the collector is registered
registerNestCollector(cfg) ==
    IF ~ParseRequestURI(cfg.NestURL) THEN Registered("errFailedParsingURL", {}, FALSE)
    ELSE Registered("nil", {"nest"}, FALSE)

\* what weather.New may return for a configuration with a token
WeatherNewOutcomes == {"nil", ErrWeatherNew}

\* a mutant of registerWeatherCollector: the token is not looked at
registerWeatherCollectorAlways(cfg, w) ==
    IF w # "nil" THEN Registered(w, {}, FALSE)
    ELSE Registered("nil", {"weather"}, FALSE)

\* registerWeatherCollector, weather.New returning w
registerWeatherCollector(cfg, w) ==
    IF cfg.WeatherToken = "" THEN Registered("nil", {}, FALSE)
    ELSE IF w # "nil" THEN Registered(w, {}, FALSE)
    ELSE Registered("nil", {"weather"}, FALSE)

\* a mutant of registerNestAppCollector: the reader is taken to be switched
\* off whenever the URL or the cookies are missing
registerNestAppCollectorLenient(cfg, ra, rb) ==
    IF cfg.NestGoogleAuthURL \in {"nil", ""} \/ cfg.NestGoogleAuthCookies \in {"nil", ""}
    THEN Registered("nil", {}, FALSE)
    ELSE IF reauth(ra, rb).err # "nil" THEN Registered(ErrNestAppNew, {}, TRUE)
    ELSE Registered("nil", {"nestapp"}, TRUE)

\* registerNestAppCollector, the two endpoints answering ra and rb to
\* nestapp.New
registerNestAppCollector(cfg, ra, rb) ==
    IF cfg.NestGoogleAuthURL \in {"nil", ""}
    THEN IF cfg.NestGoogleAuthCookies \notin {"nil", ""}
         THEN Registered(ErrNoAuthURL, {}, FALSE)
         ELSE Registered("nil", {}, FALSE)
    ELSE IF cfg.NestGoogleAuthCookies \in {"nil", ""}
    THEN Registered(ErrNoCookies, {}, FALSE)
    ELSE IF reauth(ra, rb).err # "nil" THEN Registered(ErrNestAppNew, {}, TRUE)
    ELSE Registered("nil", {"nestapp"}, TRUE)

\* NewExporter: the three registrations in turn, the first error ending it
NewExporter ==
    /\ exporter.result = "none"
    /\ collector = "none"
    /\ \E w \in WeatherNewOutcomes : \E ra \in GoogleResponses :
       \E rb \in JwtResponses({"jwtA", "jwtB"}, now, 0..MaxLife) :
       LET cfg == exporter.cfg
           n == registerNestCollector(cfg)
           o == registerWeatherCollector(cfg, w)
           a == registerNestAppCollector(cfg, ra, rb)
           ran == IF n.err # "nil" THEN <<n>>
                  ELSE IF o.err # "nil" THEN <<n, o>>
                  ELSE <<n, o, a>>
           last == ran[Len(ran)]
           r == reauth(ra, rb)
       IN  /\ exporter' = [exporter EXCEPT
                    !.result = IF last.err # "nil" THEN "error" ELSE "exporter",
                    !.err = last.err,
                    !.constructed = UNION {ran[i].constructed : i \in DOMAIN ran},
                    !.registered = UNION {ran[i].registered : i \in DOMAIN ran}]
           /\ IF Len(ran) = 3 /\ a.called
              THEN /\ exchange' = [a |-> ra, b |-> rb]
                   /\ IF r.err # "nil"
                      THEN /\ collector' = "error"
                           /\ UNCHANGED <<accessToken, userId, accessTokenValidUntil, issued>>
                      ELSE /\ collector' = "collector"
                           /\ accessToken' = r.jwt
                           /\ userId' = r.userId
                           /\ accessTokenValidUntil' = r.exp
                           /\ issued' = [p \in Procs |-> <<r.jwt, r.userId, r.exp>>]
              ELSE UNCHANGED <<exchange, collector, accessToken, userId,
                               accessTokenValidUntil, issued>>
    /\ UNCHANGED <<reader, now, pc, local, ch, nest>>

\* the program starts: a configuration, nothing constructed
InitExporter ==
    /\ reader = "nest"
    /\ now = 1
    /\ collector = "none"
    /\ exchange = NoExchange
    /\ accessToken = ""
    /\ userId = ""
    /\ accessTokenValidUntil = 0
    /\ issued = [p \in Procs |-> <<"", "", 0>>]
    /\ pc = [p \in Procs |-> "idle"]
    /\ local = [p \in Procs |-> NoLocal]
    /\ ch = [p \in Procs |-> <<>>]
    /\ nest = NoNest
    /\ \E c \in [NestURL : NestURLs, NestLabelSpaceToDash : LabelFlags,
                  WeatherToken : WeatherTokens, NestGoogleAuthURL : AuthURLs,
                  NestGoogleAuthCookies : AuthCookies] :
        exporter = [NoExporter EXCEPT !.cfg = c]

NextExporter == NewExporter

SpecExporter == InitExporter /\ [][NextExporter]_vars

\* parsing: New returned a collector whose token is good for longer than the
\* margin, and one caller collects, the data endpoint answering with the
\* buckets in every order
InitParse ==
    /\ reader = "nestapp"
    /\ now = 1
    /\ collector = "collector"
    /\ exchange = [a |-> [transport |-> "ok", hasError |-> FALSE, access_token |-> "ya29"],
                   b |-> [transport |-> "ok", hasError |-> FALSE, jwt |-> "jwtA",
                          nestId |-> Subject("jwtA"),
                          expirationTime |-> [kind |-> "rfc3339", t |-> now + Margin + 1]]]
    /\ accessToken = "jwtA"
    /\ userId = Subject("jwtA")
    /\ accessTokenValidUntil = now + Margin + 1
    /\ issued = [p \in Procs |-> <<"jwtA", Subject("jwtA"), now + Margin + 1>>]
    /\ pc = [p \in Procs |-> "idle"]
    /\ local = [p \in Procs |-> NoLocal]
    /\ ch = [p \in Procs |-> <<>>]
    /\ nest = NoNest
    /\ exporter = NoExporter

NextParse ==
    \/ StartCollect(1)
    \/ ReqUrl(1)
    \/ ReqAuthorization(1)
    \/ ReqUserId(1)
    \/ DoRequest(1, ParseResponses)
    \/ CollectSamples(1)
    \/ Gather(1)

SpecParse == InitParse /\ [][NextParse]_vars

----------------------------------------------------------------------------
(* Properties of the Nest app collector in sequential use (caller 1)        *)

ReauthPositions ==
    {"getGoogleAccessToken", "getNestJwt", "setAccessToken", "setUserId", "setValidUntil",
     "expiredCheck"}
RequestPositions == {"reqUrl", "reqAuthorization", "reqUserId", "do"}
ReturnedPositions == {"returned", "collected"}
ReauthError == "Failed to re-authenticate to Nest API"

\* the request getReadings builds from a session
RequestOf(token, user) == [urlUser |-> user, authorization |-> token, xNlUserId |-> user]

\* the data request was answered with status 200 and a body that could be read
DataRequestSucceeded(resp) == resp.transport = "ok" /\ resp.status = 200 /\ resp.bodyRead

\* C1: a collection attempts the re-authentication if and only if, at its
\* start, now >= storedExpiry - 2 minutes; the attempt is over before the data
\* request is issued; after a successful attempt the request carries the token
\* and user id just issued; without an attempt no authentication call was made
\* and the request carries the stored session.
C1_ReauthIffAboutToExpire ==
    LET l == local[1]
        attempted == pc[1] \in ReauthPositions \/ l.reauth # "none"
    IN  /\ pc[1] \in ReauthPositions \cup RequestPositions =>
            (attempted <=> l.startedAt >= l.startSession[3] - 2)
        /\ pc[1] \in RequestPositions /\ l.reauth = "none" =>
            l.calls.getGoogleAccessToken = 0 /\ l.calls.getNestJwt = 0
        /\ pc[1] \in RequestPositions /\ l.reauth # "none" =>
            l.calls.getGoogleAccessToken = 1 /\ l.calls.do = 0
        /\ pc[1] = "do" /\ l.reauth = "ok" =>
            /\ l.calls.getNestJwt = 1
            /\ l.req = RequestOf(issued[1][1], issued[1][2])
        /\ pc[1] = "do" /\ l.reauth = "none" =>
            l.req = RequestOf(l.startSession[1], l.startSession[2])

\* a request built after a re-authentication that replaced the token and the user
C1_Witness ==
    /\ pc[1] = "do"
    /\ local[1].reauth = "ok"
    /\ local[1].req.authorization # local[1].startSession[1]
    /\ local[1].req.urlUser # local[1].startSession[2]
    /\ local[1].startedAt < local[1].startSession[3]

\* C2: when the re-authentication failed and the stored token's expiry has
\* passed, the collection fails with the re-authentication error and issues no
\* data request.
C2_ExpiredReauthFailureIsFatal ==
    LET l == local[1]
    IN  (/\ pc[1] \in RequestPositions \cup ReturnedPositions
         /\ l.reauth = "failed"
         /\ l.checkedAt >= accessTokenValidUntil)
        => /\ pc[1] \in ReturnedPositions
           /\ l.err = ReauthError
           /\ l.calls.do = 0
           /\ l.req = NoRequest

C2_Witness ==
    /\ pc[1] = "returned"
    /\ local[1].reauth = "failed"
    /\ local[1].checkedAt >= accessTokenValidUntil
    /\ local[1].err = ReauthError

\* C3: when the re-authentication failed while the stored token was inside the
\* margin but not expired, the data request is issued with the old token and
\* the old user id, and the collection succeeds exactly when the data request
\* does.
C3_GraceAfterFailedReauth ==
    LET l == local[1]
    IN  (/\ pc[1] \in RequestPositions \cup ReturnedPositions
         /\ l.reauth = "failed"
         /\ l.checkedAt < accessTokenValidUntil)
        => /\ pc[1] = "do" => l.req = RequestOf(l.startSession[1], l.startSession[2])
           /\ pc[1] \in ReturnedPositions =>
                /\ l.calls.do = 1
                /\ l.err # ReauthError
                /\ l.err = "nil" <=> DataRequestSucceeded(l.resp)

C3_Witness ==
    /\ pc[1] = "returned"
    /\ local[1].reauth = "failed"
    /\ local[1].checkedAt < accessTokenValidUntil
    /\ local[1].err = "nil"
    /\ local[1].readings.sensors # <<>>

\* C4: outside the three assignments of reauth, the session of a constructed
\* collector is the triple one successful exchange returned, the last one; so a
\* failed re-authentication and the data request leave it as it was.  Before
\* New succeeded the session is empty.
C4_SessionIsOneExchange ==
    /\ collector = "collector"
            /\ pc[1] \notin {"setAccessToken", "setUserId", "setValidUntil"}
        => session = issued[1]
    /\ collector # "collector" => session = <<"", "", 0>>
    /\ pc[1] \in RequestPositions /\ local[1].reauth # "ok"
        => session = local[1].startSession

\* the session after a re-authentication that replaced all three fields
C4_Witness ==
    /\ pc[1] = "reqUrl"
    /\ local[1].reauth = "ok"
    /\ accessToken # local[1].startSession[1]
    /\ userId # local[1].startSession[2]
    /\ accessTokenValidUntil # local[1].startSession[3]
    /\ session = issued[1]

----------------------------------------------------------------------------
(* The Nest app collector in concurrent use                                 *)

\* C5: two collections running concurrently with a token inside the margin
\* never interleave their re-authentication, so whenever no caller is inside
\* the three assignments of reauth, the session is the triple of one exchange.
C5_ConcurrentSessionIsOneExchange ==
    (\A p \in Procs : pc[p] \notin {"setAccessToken", "setUserId", "setValidUntil"})
        => session \in {issued[p] : p \in Procs}

----------------------------------------------------------------------------
(* Construction of the Nest app collector                                   *)

\* C6: New returns a collector only if both steps of the exchange succeeded,
\* and the session is then the token, user id and expiry of the answer to step
\* (b); if a step fails New returns an error, no collector, and stores nothing;
\* no Collect runs unless New returned a collector with a session.
C6_NewAuthenticatesOrFails ==
    [][/\ collector = "none" /\ collector' # "none" =>
            IF /\ getGoogleAccessToken(exchange'.a).err = "nil"
               /\ getNestJwt(exchange'.b).err = "nil"
            THEN /\ collector' = "collector"
                 /\ session' = <<exchange'.b.jwt, exchange'.b.nestId,
                                 exchange'.b.expirationTime.t>>
                 /\ accessToken' # "" /\ userId' # ""
            ELSE /\ collector' = "error"
                 /\ session' = <<"", "", 0>>
       /\ collector # "none" => collector' = collector
       /\ \A p \in Procs : pc'[p] # "idle" => collector' = "collector" /\ accessToken' # ""
      ]_vars

C6_Witness ==
    /\ collector = "collector"
    /\ pc[1] = "do"
    /\ local[1].reauth = "none"
    /\ local[1].req = RequestOf(exchange.b.jwt, exchange.b.nestId)

----------------------------------------------------------------------------
(* The samples of a Collect                                                 *)

\* the places of the samples of a metric on a channel
Of(c, metric) == {i \in DOMAIN c : c[i].metric = metric}
\* the places of the samples of a metric for the device id
OfDevice(c, metric, id) ==
    {i \in DOMAIN c : c[i].metric = metric /\ c[i].labels # <<>> /\ c[i].labels[1] = id}

\* the thermostat response could be read: status 200 and the body read
NestResponseRead(r) == r.transport = "ok" /\ r.status = 200 /\ r.bodyRead
\* the places of the thermostats in a devices array
ThermostatsIn(devices) == {i \in DOMAIN devices : devices[i].type = THERMOSTAT}

\* C7: every Collect of the thermostat collector and of the Nest app collector
\* sends exactly one up sample: 0 and nothing else when the read failed, 1 and
\* before every other sample when it succeeded.
C7_ExactlyOneUp ==
    /\ nest # NoNest =>
        LET failed == ~NestResponseRead(nest.resp)
                        \/ ThermostatsIn(nest.resp.devices) = {}
        IN  /\ Cardinality(Of(nest.ch, "nest_up")) = 1
            /\ nest.ch[1].metric = "nest_up"
            /\ failed => nest.ch = <<Sample("nest_up", <<>>, 0)>>
            /\ ~failed => nest.ch[1].value = 1 /\ Len(nest.ch) > 1
    /\ pc[1] # "collected" => ch[1] = <<>>
    /\ pc[1] = "collected" =>
        LET failed == local[1].calls.do = 0 \/ ~DataRequestSucceeded(local[1].resp)
        IN  /\ Cardinality(Of(ch[1], "nest_app_up")) = 1
            /\ ch[1][1].metric = "nest_app_up"
            /\ failed => ch[1] = <<Sample("nest_app_up", <<>>, 0)>>
            /\ ~failed => ch[1][1].value = 1

\* a successful Collect of the Nest app collector with sensor and structure samples
C7_Witness ==
    /\ pc[1] = "collected"
    /\ ch[1][1] = Sample("nest_app_up", <<>>, 1)
    /\ Of(ch[1], "nest_temp_sensor_temperature_celsius") # {}
    /\ Of(ch[1], "nest_outside_temperature_celsius") # {}

\* C8: in a successful collection every thermostat gets exactly one online
\* sample, 1 if it is online and 0 if not; an offline thermostat gets no other
\* sample; an online one gets its ambient temperature, humidity and heating
\* samples whatever the other thermostats are.
C8_OfflineSuppressed ==
    nest.err = "nil" =>
        \A k \in ThermostatsIn(nest.resp.devices) :
            LET d == nest.resp.devices[k]
                online == d.connectivity = "ONLINE"
            IN  /\ Cardinality(OfDevice(nest.ch, "nest_online", d.name)) = 1
                /\ \A i \in OfDevice(nest.ch, "nest_online", d.name) :
                        nest.ch[i].value = (IF online THEN 1 ELSE 0)
                /\ ~online =>
                        \A i \in DOMAIN nest.ch :
                            nest.ch[i].labels # <<>> /\ nest.ch[i].labels[1] = d.name
                                => nest.ch[i].metric = "nest_online"
                /\ online =>
                        \A m \in {"nest_ambient_temperature_celsius", "nest_humidity_percent",
                                  "nest_heating"} :
                            Cardinality(OfDevice(nest.ch, m, d.name)) = 1

\* an offline thermostat followed by an online one
C8_Witness ==
    /\ nest.err = "nil"
    /\ Len(nest.resp.devices) = 2
    /\ ThermostatsIn(nest.resp.devices) = {1, 2}
    /\ nest.resp.devices[1].connectivity = "OFFLINE"
    /\ nest.resp.devices[2].connectivity = "ONLINE"
    /\ OfDevice(nest.ch, "nest_humidity_percent", nest.resp.devices[2].name) # {}

\* C9: for a response that could be read, getNestReadings returns one
\* Thermostat per device of the thermostat type, in the order of the array, and
\* none for another device; it fails only if the array holds no thermostat.
C9_OneThermostatPerThermostatDevice ==
    nest # NoNest /\ NestResponseRead(nest.resp) =>
        LET ds == nest.resp.devices
            T == ThermostatsIn(ds)
        IN  /\ Len(nest.thermostats) = Cardinality(T)
            /\ \A i \in T :
                LET t == nest.thermostats[Cardinality({j \in T : j <= i})]
                IN  /\ t.ID = ds[i].name
                    /\ t.Online = (ds[i].connectivity = "ONLINE")
                    /\ t.Status = ds[i].hvac
            /\ nest.err # "nil" => T = {}

\* another device before a thermostat
C9_Witness ==
    /\ nest.err = "nil"
    /\ Len(nest.resp.devices) = 2
    /\ nest.resp.devices[1].type # THERMOSTAT
    /\ Len(nest.thermostats) = 1
    /\ nest.thermostats[1].ID = nest.resp.devices[2].name

\* C10: a response with status 200 whose body was read and whose devices array
\* (missing, empty, or of other devices only) holds no thermostat makes the
\* collection fail with the no-valid-thermostats error, without a list.
C10_NoThermostatsIsAnError ==
    (/\ nest # NoNest
     /\ NestResponseRead(nest.resp)
     /\ ThermostatsIn(nest.resp.devices) = {})
        => /\ nest.err = "errFailedUnmarshalling"
           /\ nest.thermostats = <<>>

\* a devices array of other devices only
C10_Witness ==
    /\ nest.err = "errFailedUnmarshalling"
    /\ nest.resp.hasDevices
    /\ Len(nest.resp.devices) = 2
    /\ ThermostatsIn(nest.resp.devices) = {}

----------------------------------------------------------------------------
(* The parsing of the app_launch response                                   *)

\* the places of the buckets of a type (with a value) in an array
BucketsOf(bs, type) == {i \in DOMAIN bs : bs[i].type = type /\ bs[i].hasValue}
\* no two structure buckets of the array have the same id
DistinctStructureIds(bs) ==
    \A i, j \in BucketsOf(bs, "structure") : i # j => bs[i].id # bs[j].id
\* the sensor record made for the kryptonite bucket at place i
SensorOf(sensors, bs, i) ==
    sensors[Cardinality({k \in BucketsOf(bs, "kryptonite") : k <= i})]

\* C11: whatever the order of the buckets of a response with distinct
\* structure ids, the StructureName of each sensor is the name of the structure
\* bucket its structure_id names, and its WhereName the name the where bucket of
\* that structure gives to its where_id.
C11_ParsingIsPermutationInvariant ==
    LET l == local[1]
        bs == l.resp.body.updated_buckets
    IN  pc[1] \in ReturnedPositions /\ l.err = "nil" /\ DistinctStructureIds(bs) =>
            \A i \in BucketsOf(bs, "kryptonite") :
                \A j \in BucketsOf(bs, "structure") :
                    bs[j].id = bs[i].structure_id =>
                        /\ SensorOf(l.readings.sensors, bs, i).StructureName = bs[j].name
                        /\ \A w \in BucketsOf(bs, "where") :
                            \A x \in DOMAIN bs[w].wheres :
                                (/\ bs[w].id = bs[j].id
                                 /\ bs[w].wheres[x].hasWhereId
                                 /\ bs[w].wheres[x].where_id = bs[i].where_id)
                                    => SensorOf(l.readings.sensors, bs, i).WhereName
                                            = bs[w].wheres[x].name

\* a sensor bucket standing before its structure and where buckets, resolved
C11_Witness ==
    LET l == local[1]
        bs == l.resp.body.updated_buckets
    IN  /\ pc[1] = "collected"
        /\ l.err = "nil"
        /\ Len(bs) = 3
        /\ bs[1].type = "kryptonite"
        /\ bs[2].type = "where"
        /\ bs[3].type = "structure"
        /\ l.readings.sensors[1].StructureName = "Cabin"
        /\ l.readings.sensors[1].WhereName = "Loft"

----------------------------------------------------------------------------
(* The labels of the thermostat samples                                     *)

\* the device of a response with the resource name id
DeviceNamed(devices, id) == CHOOSE d \in {devices[k] : k \in DOMAIN devices} : d.name = id

\* C12: the label of a thermostat has its spaces replaced by dashes only if
\* the space-to-dash option is set to true; if it is false or not set the
\* label is the custom name as it is.  The id and the room are never rewritten.
C12_LabelNormalizationIsOptIn ==
    nest.err = "nil" =>
        \A i \in DOMAIN nest.ch :
            nest.ch[i].labels # <<>> =>
                LET d == DeviceNamed(nest.resp.devices, nest.ch[i].labels[1])
                IN  /\ nest.ch[i].labels[2] = roomOf(d.parentRelations)
                    /\ nest.ch[i].labels[3] =
                            IF exporter.cfg.NestLabelSpaceToDash = "true"
                            THEN Replace(d.customName, " ", "-")
                            ELSE d.customName

----------------------------------------------------------------------------
(* The composition root                                                     *)

\* a *string option that is nil or empty
Absent(v) == v \in {"nil", ""}
\* the readers NewExporter constructed or registered
Made == exporter.constructed \cup exporter.registered

\* C13: NewExporter neither constructs nor registers the weather reader if the
\* weather token is empty, nor the Nest app reader if the auth URL and the auth
\* cookies are both absent or empty, in which case it makes no authentication
\* call; neither case is an error of that reader.
C13_UnconfiguredReaderIsAbsent ==
    exporter.result # "none" =>
        /\ exporter.cfg.WeatherToken = "" =>
            "weather" \notin Made /\ exporter.err # ErrWeatherNew
        /\ Absent(exporter.cfg.NestGoogleAuthURL)
                /\ Absent(exporter.cfg.NestGoogleAuthCookies) =>
            /\ "nestapp" \notin Made
            /\ exchange = NoExchange
            /\ collector = "none"
            /\ exporter.err \notin {ErrNoAuthURL, ErrNoCookies, ErrNestAppNew}
        /\ (/\ ParseRequestURI(exporter.cfg.NestURL)
            /\ exporter.cfg.WeatherToken = ""
            /\ Absent(exporter.cfg.NestGoogleAuthURL)
            /\ Absent(exporter.cfg.NestGoogleAuthCookies)) =>
            exporter.result = "exporter" /\ exporter.err = "nil"

\* an Exporter with the thermostat reader alone
C13_Witness ==
    /\ exporter.result = "exporter"
    /\ exporter.cfg.WeatherToken = ""
    /\ exporter.cfg.NestGoogleAuthURL = "nil"
    /\ exporter.cfg.NestGoogleAuthCookies = ""
    /\ exporter.registered = {"nest"}

\* exactly one of the auth URL and the auth cookies is given
OneOfUrlAndCookies ==
    Absent(exporter.cfg.NestGoogleAuthURL) # Absent(exporter.cfg.NestGoogleAuthCookies)

\* C14: with exactly one of the auth URL and the auth cookies given, NewExporter
\* returns an error and no Exporter, the Nest app reader is neither constructed
\* nor registered and no authentication call is made; unless an earlier
\* registration failed, the error is the one that names the missing option.
C14_HalfConfiguredAppReaderIsAnError ==
    exporter.result # "none" /\ OneOfUrlAndCookies =>
        /\ exporter.result = "error"
        /\ "nestapp" \notin Made
        /\ exchange = NoExchange
        /\ collector = "none"
        /\ exporter.err \in
            {"errFailedParsingURL", ErrWeatherNew,
             IF Absent(exporter.cfg.NestGoogleAuthURL) THEN ErrNoAuthURL ELSE ErrNoCookies}
        /\ ParseRequestURI(exporter.cfg.NestURL) /\ exporter.cfg.WeatherToken = "" =>
            exporter.err \in {ErrNoAuthURL, ErrNoCookies}

\* cookies without a URL, after the other two readers were registered
C14_Witness ==
    /\ exporter.result = "error"
    /\ exporter.err = ErrNoAuthURL
    /\ exporter.cfg.NestGoogleAuthURL = ""
    /\ exporter.cfg.NestGoogleAuthCookies = "SID=abc"
    /\ exporter.registered = {"nest", "weather"}

----------------------------------------------------------------------------
(* Requests per collection                                                  *)

\* C15: one collection of the Nest app collector calls each step of the
\* re-authentication at most once and sends at most one data request, and one
\* collection of the thermostat collector sends at most one GET: a step that
\* failed is not tried again before the collection ends.
C15_NoInternalRetry ==
    /\ local[1].calls.getGoogleAccessToken <= 1
    /\ local[1].calls.getNestJwt <= 1
    /\ local[1].calls.do <= 1
    /\ local[1].reauth = "failed" => pc[1] \notin {"getGoogleAccessToken", "getNestJwt"}
    /\ nest.gets <= 1
    /\ nest # NoNest => nest.gets = 1

\* a collection that ended after a failed exchange and a failed data request
C15_Witness ==
    /\ pc[1] = "collected"
    /\ local[1].reauth = "failed"
    /\ local[1].calls = [getGoogleAccessToken |-> 1, getNestJwt |-> 1, do |-> 1]
    /\ local[1].err = "errFailedRequest"

----------------------------------------------------------------------------
(* Readings that may be absent                                              *)

\* weather_for_structures gives a current temperature for the structure id
HasOutsideTemperature(w, id) == id \in DOMAIN w /\ w[id].hasCurrent /\ w[id].hasTempC

\* C16: an online thermostat without the heat setpoint trait is returned and
\* gets its other samples but no setpoint sample, one with the trait gets the
\* setpoint sample; a structure is returned whether or not
\* weather_for_structures has a current temperature for it, and gets an
\* outside temperature sample exactly if it has.
C16_AbsentReadingsGiveNoSample ==
    /\ nest.err = "nil" =>
        \A k \in ThermostatsIn(nest.resp.devices) :
            LET d == nest.resp.devices[k]
                setpoints == OfDevice(nest.ch, "nest_setpoint_temperature_celsius", d.name)
            IN  d.connectivity = "ONLINE" =>
                    /\ \E i \in DOMAIN nest.thermostats : nest.thermostats[i].ID = d.name
                    /\ Cardinality(OfDevice(nest.ch, "nest_ambient_temperature_celsius",
                                            d.name)) = 1
                    /\ Cardinality(OfDevice(nest.ch, "nest_humidity_percent", d.name)) = 1
                    /\ Cardinality(OfDevice(nest.ch, "nest_heating", d.name)) = 1
                    /\ ~d.hasHeatCelsius => setpoints = {}
                    /\ d.hasHeatCelsius =>
                        /\ Cardinality(setpoints) = 1
                        /\ \A i \in setpoints : nest.ch[i].value = d.heatCelsius
    /\ pc[1] = "collected" /\ local[1].err = "nil" =>
        LET body == local[1].resp.body
            bs == body.updated_buckets
            w == body.weather_for_structures
            structures == local[1].readings.structures
        IN  /\ {structures[i].Id : i \in DOMAIN structures}
                    = {bs[j].id : j \in BucketsOf(bs, "structure")}
            /\ \A j \in BucketsOf(bs, "structure") :
                LET outside == OfDevice(ch[1], "nest_outside_temperature_celsius", bs[j].id)
                IN  /\ ~HasOutsideTemperature(w, bs[j].id) => outside = {}
                    /\ HasOutsideTemperature(w, bs[j].id) =>
                        /\ Cardinality(outside) = 1
                        /\ \A i \in outside : ch[1][i].value = w[bs[j].id].temp_c

\* an online thermostat without the heat setpoint trait next to one with it
C16_Witness ==
    /\ nest.err = "nil"
    /\ Len(nest.resp.devices) = 2
    /\ ThermostatsIn(nest.resp.devices) = {1, 2}
    /\ nest.resp.devices[1].connectivity = "ONLINE"
    /\ ~nest.resp.devices[1].hasHeatCelsius
    /\ nest.resp.devices[2].connectivity = "ONLINE"
    /\ nest.resp.devices[2].hasHeatCelsius
    /\ Cardinality(Of(nest.ch, "nest_setpoint_temperature_celsius")) = 1
    /\ Cardinality(Of(nest.ch, "nest_ambient_temperature_celsius")) = 2

----------------------------------------------------------------------------
(* The samples derived from the HVAC status                                 *)

\* the metrics Describe declares
Declared == {NestDescribe[i] : i \in DOMAIN NestDescribe}

\* C17: every online thermostat of a successful collection gets one heating
\* sample, 1 exactly if its HVAC status is HEATING, and one cooling sample,
\* 1 exactly if its HVAC status is COOLING; Describe declares both metrics.
C17_HeatingAndCoolingSamples ==
    nest.err = "nil" =>
        \A k \in ThermostatsIn(nest.resp.devices) :
            LET d == nest.resp.devices[k]
                heating == OfDevice(nest.ch, "nest_heating", d.name)
                cooling == OfDevice(nest.ch, "nest_cooling", d.name)
            IN  d.connectivity = "ONLINE" =>
                    /\ Cardinality(heating) = 1
                    /\ \A i \in heating : nest.ch[i].value = b2f(d.hvac = "HEATING")
                    /\ "nest_heating" \in Declared
                    /\ Cardinality(cooling) = 1
                    /\ \A i \in cooling : nest.ch[i].value = b2f(d.hvac = "COOLING")
                    /\ "nest_cooling" \in Declared

----------------------------------------------------------------------------
(* Dangling references in the app_launch response                           *)

\* the names the where buckets of the array give for the structure id
WheresOf(bs, id) ==
    UNION {{<<bs[w].wheres[x].where_id, bs[w].wheres[x].name>> :
                x \in {y \in DOMAIN bs[w].wheres : bs[w].wheres[y].hasWhereId}} :
            w \in {v \in BucketsOf(bs, "where") : bs[v].id = id}}

\* C18: a where bucket for a structure that has no bucket changes no
\* structure, and every kryptonite bucket yields exactly one sensor, whose
\* StructureName is empty if its structure_id names no structure bucket and
\* whose WhereName is empty if that structure's where names lack its where_id;
\* the collection does not fail.
C18_DanglingReferencesAreTolerated ==
    LET l == local[1]
        bs == l.resp.body.updated_buckets
        ids == {bs[j].id : j \in BucketsOf(bs, "structure")}
        structures == l.readings.structures
    IN  pc[1] \in ReturnedPositions /\ DataRequestSucceeded(l.resp) =>
            /\ l.err = "nil"
            /\ Len(l.readings.sensors) = Cardinality(BucketsOf(bs, "kryptonite"))
            /\ Len(structures) = Cardinality(ids)
            /\ \A i \in DOMAIN structures :
                /\ structures[i].Id \in ids
                /\ {<<k, structures[i].WhereNames[k]>> : k \in DOMAIN structures[i].WhereNames}
                        = WheresOf(bs, structures[i].Id)
            /\ \A i \in BucketsOf(bs, "kryptonite") :
                LET sensor == SensorOf(l.readings.sensors, bs, i)
                IN  /\ sensor.SerialNumber = bs[i].serial_number
                    /\ bs[i].structure_id \notin ids =>
                            sensor.StructureName = "" /\ sensor.WhereName = ""
                    /\ (\A g \in WheresOf(bs, bs[i].structure_id) : g[1] # bs[i].where_id) =>
                            sensor.WhereName = ""

\* a where bucket and a sensor of a structure that is not there, and a sensor
\* of a place its structure does not name
C18_Witness ==
    LET l == local[1]
        bs == l.resp.body.updated_buckets
    IN  /\ pc[1] = "collected"
        /\ l.err = "nil"
        /\ Len(bs) = 4
        /\ bs[1] = WhereBucket("s3", <<Where("w1", "Shed")>>)
        /\ bs[2] = KryptoniteBucket("44CC", "s3", "w1", 17, 12)
        /\ bs[3] = KryptoniteBucket("33BB", "s1", "w9", 22, 79)
        /\ bs[4] = StructureBucket("s1", "Home")
        /\ l.readings.sensors[1].StructureName = ""
        /\ l.readings.sensors[2].StructureName = "Home"
        /\ l.readings.sensors[2].WhereName = ""

----------------------------------------------------------------------------
(* The second read of the clock                                             *)

\* C19: after a failed re-authentication getReadings compares the expiry with
\* the clock as it is when the attempt has returned: if that instant is at or
\* past the stored expiry the collection fails with the re-authentication
\* error and sends no data request, even if it started before the expiry; if
\* it is before the expiry the collection goes on to the data request.
C19_ExpiryIsCheckedAfterTheAttempt ==
    LET l == local[1]
        checked == pc[1] \in RequestPositions \cup ReturnedPositions
                    /\ l.reauth = "failed" /\ l.calls.do = 0
    IN  /\ checked =>
            /\ l.startSession = session
            /\ l.startedAt <= l.checkedAt
            /\ l.checkedAt >= l.startSession[3] =>
                pc[1] \in ReturnedPositions /\ l.err = ReauthError
            /\ l.checkedAt < l.startSession[3] =>
                pc[1] \in RequestPositions /\ l.err = "nil"
        /\ pc[1] \in ReturnedPositions /\ l.err = ReauthError => l.calls.do = 0

\* a collection that started inside the margin, before the expiry, and whose
\* failed re-authentication returned at the expiry
C19_Witness ==
    /\ pc[1] = "collected"
    /\ local[1].reauth = "failed"
    /\ local[1].startedAt < local[1].startSession[3]
    /\ local[1].checkedAt >= local[1].startSession[3]
    /\ local[1].err = ReauthError
    /\ local[1].calls.do = 0
    /\ ch[1] = <<Sample("nest_app_up", <<>>, 0)>>

----------------------------------------------------------------------------
(* Recovery                                                                 *)

\* a Collect has ended successfully and the stored token has not expired
Recovered ==
    /\ pc[1] = "collected"
    /\ local[1].err = "nil"
    /\ now < accessTokenValidUntil

\* C20: whatever the session of a constructed collector is, expired or not,
\* and however many re-authentications have failed, if scrapes keep arriving
\* and the endpoints answer successfully again and again, a collection
\* eventually succeeds with an unexpired token in the session.
C20_CollectorRecovers == (collector = "collector") ~> Recovered

\* a successful collection that renewed a session whose first token had expired
C20_Witness ==
    /\ Recovered
    /\ local[1].reauth = "ok"
    /\ exchange.b.expirationTime.t <= now
    /\ ch[1] = <<Sample("nest_app_up", <<>>, 1)>>
====
